---- MODULE Spec2Model ----
(***************************************************************************)
(* Model of the normalization pipeline of demo_language_variations.py:     *)
(* MockPostProcessor (variable-name, unit and formal-expression            *)
(* normalizers) and the process loop of demonstrate_language_variations.   *)
(*                                                                         *)
(* A Python str is a sequence of characters; a character is a one-symbol   *)
(* string ("a", " ", "_").  The twelve non-ASCII mathematical symbols of   *)
(* the replacements table are written by their code point ("U+2265").      *)
(* A Python dict is a sequence of <<key, value>> pairs with distinct keys, *)
(* in insertion order.                                                     *)
(***************************************************************************)
EXTENDS Integers, Sequences, FiniteSets

VARIABLES post_processor, name, unit, expression, result, result2, invs, drafts, locals, pc

vars == <<post_processor, name, unit, expression, result, result2, invs, drafts, locals, pc>>

-----------------------------------------------------------------------------
(* Characters: str.lower(), the class \s of re, the class [a-z0-9] *)

LowerLetters == <<"a", "b", "c", "d", "e", "f", "g", "h", "i", "j", "k", "l", "m", "n", "o", "p", "q", "r", "s", "t", "u", "v", "w", "x", "y", "z">>

UpperLetters == <<"A", "B", "C", "D", "E", "F", "G", "H", "I", "J", "K", "L", "M", "N", "O", "P", "Q", "R", "S", "T", "U", "V", "W", "X", "Y", "Z">>

Digits == {"0", "1", "2", "3", "4", "5", "6", "7", "8", "9"}

Whitespace == {" ", "\t", "\n"}

Range(s) == {s[i] : i \in 1..Len(s)}

\* str.lower() on one character
LowerChar(c) ==
    IF \E i \in 1..26 : UpperLetters[i] = c
    THEN LowerLetters[CHOOSE i \in 1..26 : UpperLetters[i] = c]
    ELSE c

UpperChar(c) ==
    IF \E i \in 1..26 : LowerLetters[i] = c
    THEN UpperLetters[CHOOSE i \in 1..26 : LowerLetters[i] = c]
    ELSE c

\* str.lower()
Lower(s) == [i \in 1..Len(s) |-> LowerChar(s[i])]

IsAlnum(c) == c \in Range(LowerLetters) \/ c \in Digits

-----------------------------------------------------------------------------
(* Python dict: get, item assignment, key view *)

DictKeys(d) == {d[i][1] : i \in 1..Len(d)}

DictGet(d, k, default) ==
    IF k \in DictKeys(d)
    THEN d[CHOOSE i \in 1..Len(d) : d[i][1] = k][2]
    ELSE default

\* d[k] = v : an existing key keeps its place and takes the new value
DictSet(d, k, v) ==
    IF k \in DictKeys(d)
    THEN [i \in 1..Len(d) |-> IF d[i][1] = k THEN <<k, v>> ELSE d[i]]
    ELSE Append(d, <<k, v>>)

-----------------------------------------------------------------------------
(* MockPostProcessor.__init__ : the rule tables *)

\* (re.compile(r"(?i)w1\s*w2"), replacement), in listed order
VariableNamePatterns ==
    << [w1 |-> <<"u", "s", "e", "r">>,       w2 |-> <<"i", "d">>,     replacement |-> <<"u", "s", "e", "r", "_", "i", "d">>],
       [w1 |-> <<"s", "y", "s", "t", "e", "m">>,     w2 |-> <<"s", "t", "a", "t", "u", "s">>, replacement |-> <<"s", "y", "s", "t", "e", "m", "_", "s", "t", "a", "t", "u", "s">>],
       [w1 |-> <<"r", "e", "q", "u", "e", "s", "t">>,    w2 |-> <<"c", "o", "u", "n", "t">>,  replacement |-> <<"r", "e", "q", "u", "e", "s", "t", "_", "c", "o", "u", "n", "t">>],
       [w1 |-> <<"r", "e", "s", "p", "o", "n", "s", "e">>,   w2 |-> <<"t", "i", "m", "e">>,   replacement |-> <<"r", "e", "s", "p", "o", "n", "s", "e", "_", "t", "i", "m", "e">>],
       [w1 |-> <<"e", "r", "r", "o", "r">>,      w2 |-> <<"r", "a", "t", "e">>,   replacement |-> <<"e", "r", "r", "o", "r", "_", "r", "a", "t", "e">>],
       [w1 |-> <<"m", "e", "m", "o", "r", "y">>,     w2 |-> <<"u", "s", "a", "g", "e">>,  replacement |-> <<"m", "e", "m", "o", "r", "y", "_", "u", "s", "a", "g", "e">>],
       [w1 |-> <<"c", "p", "u">>,        w2 |-> <<"u", "s", "a", "g", "e">>,  replacement |-> <<"c", "p", "u", "_", "u", "s", "a", "g", "e">>],
       [w1 |-> <<"c", "o", "n", "n", "e", "c", "t", "i", "o", "n">>, w2 |-> <<"c", "o", "u", "n", "t">>,  replacement |-> <<"c", "o", "n", "n", "e", "c", "t", "i", "o", "n", "_", "c", "o", "u", "n", "t">>] >>

UnitStandardization ==
    << <<<<"m", "s">>, <<"m", "i", "l", "l", "i", "s", "e", "c", "o", "n", "d", "s">>>>,
       <<<<"m", "i", "l", "l", "i", "s", "e", "c", "o", "n", "d", "s">>, <<"m", "i", "l", "l", "i", "s", "e", "c", "o", "n", "d", "s">>>>,
       <<<<"s">>, <<"s", "e", "c", "o", "n", "d", "s">>>>,
       <<<<"s", "e", "c", "o", "n", "d", "s">>, <<"s", "e", "c", "o", "n", "d", "s">>>>,
       <<<<"m", "i", "n">>, <<"m", "i", "n", "u", "t", "e", "s">>>>,
       <<<<"m", "i", "n", "u", "t", "e", "s">>, <<"m", "i", "n", "u", "t", "e", "s">>>>,
       <<<<"B">>, <<"b", "y", "t", "e", "s">>>>,
       <<<<"b", "y", "t", "e", "s">>, <<"b", "y", "t", "e", "s">>>>,
       <<<<"K", "B">>, <<"k", "i", "l", "o", "b", "y", "t", "e", "s">>>>,
       <<<<"k", "i", "l", "o", "b", "y", "t", "e", "s">>, <<"k", "i", "l", "o", "b", "y", "t", "e", "s">>>>,
       <<<<"M", "B">>, <<"m", "e", "g", "a", "b", "y", "t", "e", "s">>>>,
       <<<<"m", "e", "g", "a", "b", "y", "t", "e", "s">>, <<"m", "e", "g", "a", "b", "y", "t", "e", "s">>>>,
       <<<<"G", "B">>, <<"g", "i", "g", "a", "b", "y", "t", "e", "s">>>>,
       <<<<"g", "i", "g", "a", "b", "y", "t", "e", "s">>, <<"g", "i", "g", "a", "b", "y", "t", "e", "s">>>>,
       <<<<"c", "o", "u", "n", "t">>, <<"i", "t", "e", "m", "s">>>>,
       <<<<"i", "t", "e", "m", "s">>, <<"i", "t", "e", "m", "s">>>>,
       <<<<"r", "e", "q", "u", "e", "s", "t", "s">>, <<"i", "t", "e", "m", "s">>>>,
       <<<<"c", "o", "n", "n", "e", "c", "t", "i", "o", "n", "s">>, <<"i", "t", "e", "m", "s">>>>,
       <<<<"%">>, <<"r", "a", "t", "i", "o">>>>,
       <<<<"p", "e", "r", "c", "e", "n", "t">>, <<"r", "a", "t", "i", "o">>>>,
       <<<<"p", "e", "r", "c", "e", "n", "t", "a", "g", "e">>, <<"r", "a", "t", "i", "o">>>> >>

MockPostProcessor ==
    [variable_name_patterns |-> VariableNamePatterns,
     unit_standardization   |-> UnitStandardization]

\* the local dict of normalize_formal_expression, in insertion order
replacements ==
    << <<"U+2264", <<"<", "=">>>>,
       <<"U+2265", <<">", "=">>>>,
       <<"U+2260", <<"!", "=">>>>,
       <<"U+2227", <<"&", "&">>>>,
       <<"U+2228", <<"|", "|">>>>,
       <<"U+00AC", <<"!">>>>,
       <<"U+2200", <<"f", "o", "r", "a", "l", "l">>>>,
       <<"U+2203", <<"e", "x", "i", "s", "t", "s">>>>,
       <<"U+2208", <<"i", "n">>>>,
       <<"U+2209", <<"n", "o", "t", "_", "i", "n">>>>,
       <<"U+2286", <<"s", "u", "b", "s", "e", "t">>>>,
       <<"U+2282", <<"p", "r", "o", "p", "e", "r", "_", "s", "u", "b", "s", "e", "t">>>> >>

-----------------------------------------------------------------------------
(* re: a compiled pattern (?i)w1\s*w2 and pattern.sub *)

\* a faulty variant of LiteralAt: the pattern compiled without (?i)
LiteralAtCaseSensitive(s, i, w) ==
    /\ i + Len(w) - 1 <= Len(s)
    /\ \A k \in 1..Len(w) : s[i + k - 1] = w[k]

\* the literal w, compared ignoring case, at s[i..]
LiteralAt(s, i, w) ==
    /\ i + Len(w) - 1 <= Len(s)
    /\ \A k \in 1..Len(w) : LowerChar(s[i + k - 1]) = w[k]

\* \s* is greedy: the first index from i on that holds no whitespace
RECURSIVE SkipWhitespace(_, _)
SkipWhitespace(s, i) ==
    IF i <= Len(s) /\ s[i] \in Whitespace THEN SkipWhitespace(s, i + 1) ELSE i

\* the index after the match of (?i)w1\s*w2 that starts at i, or 0 for none
MatchEnd(s, i, p) ==
    IF LiteralAt(s, i, p.w1)
    THEN LET j == SkipWhitespace(s, i + Len(p.w1))
         IN  IF LiteralAt(s, j, p.w2) THEN j + Len(p.w2) ELSE 0
    ELSE 0

\* pattern.sub(replacement, s) from index i: leftmost matches, none overlapping,
\* the replaced text is not scanned again
RECURSIVE SubFrom(_, _, _)
SubFrom(p, s, i) ==
    IF i > Len(s) THEN <<>>
    ELSE LET e == MatchEnd(s, i, p)
         IN  IF e > 0 THEN p.replacement \o SubFrom(p, s, e)
             ELSE <<s[i]>> \o SubFrom(p, s, i + 1)

PatternSub(p, s) == SubFrom(p, s, 1)

\* for pattern, replacement in patterns: normalized = pattern.sub(...)
RECURSIVE ApplyPatterns(_, _, _)
ApplyPatterns(patterns, s, k) ==
    IF k > Len(patterns) THEN s
    ELSE ApplyPatterns(patterns, PatternSub(patterns[k], s), k + 1)

\* re.sub(r"[^a-z0-9]", "_", s)
ReplaceSpecial(s) == [i \in 1..Len(s) |-> IF IsAlnum(s[i]) THEN s[i] ELSE "_"]

\* re.sub(r"_+", "_", s)
RECURSIVE CollapseFrom(_, _)
CollapseFrom(s, i) ==
    IF i > Len(s) THEN <<>>
    ELSE IF s[i] = "_" /\ i > 1 /\ s[i - 1] = "_" THEN CollapseFrom(s, i + 1)
    ELSE <<s[i]>> \o CollapseFrom(s, i + 1)

CollapseUnderscores(s) == CollapseFrom(s, 1)

\* a faulty variant of StripChars: str.lstrip(chars), the right end left as it is
StripCharsLeftOnly(s, chars) ==
    LET keep == {i \in 1..Len(s) : s[i] \notin chars}
    IN  IF keep = {} THEN <<>>
        ELSE SubSeq(s, CHOOSE i \in keep : \A j \in keep : i <= j, Len(s))

\* str.strip(chars): drop the characters of chars from both ends
StripChars(s, chars) ==
    LET keep == {i \in 1..Len(s) : s[i] \notin chars}
    IN  IF keep = {} THEN <<>>
        ELSE SubSeq(s, CHOOSE i \in keep : \A j \in keep : i <= j,
                       CHOOSE i \in keep : \A j \in keep : i >= j)

\* str.replace(old, new) for a one-character old
ReplaceChar(s, old, new) ==
    LET RECURSIVE From(_)
        From(i) == IF i > Len(s) THEN <<>>
                   ELSE (IF s[i] = old THEN new ELSE <<s[i]>>) \o From(i + 1)
    IN  From(1)

-----------------------------------------------------------------------------
(* MockPostProcessor's three normalizers *)

unnamed_variable == <<"u", "n", "n", "a", "m", "e", "d", "_", "v", "a", "r", "i", "a", "b", "l", "e">>

\* a faulty variant of normalize_variable_name: the name is not lower-cased first
normalize_variable_name_no_lower(self, raw) ==
    LET patterned == ApplyPatterns(self.variable_name_patterns, raw, 1)
        replaced  == ReplaceSpecial(patterned)
        collapsed == CollapseUnderscores(replaced)
        stripped  == StripChars(collapsed, {"_"})
    IN  IF stripped # <<>> THEN stripped ELSE unnamed_variable

normalize_variable_name(self, raw) ==
    LET lowered   == Lower(raw)
        patterned == ApplyPatterns(self.variable_name_patterns, lowered, 1)
        replaced  == ReplaceSpecial(patterned)
        collapsed == CollapseUnderscores(replaced)
        stripped  == StripChars(collapsed, {"_"})
    IN  IF stripped # <<>> THEN stripped ELSE unnamed_variable

standardize_unit(self, raw) ==
    LET normalized == StripChars(Lower(raw), Whitespace)
    IN  DictGet(self.unit_standardization, normalized, normalized)

RECURSIVE ApplyReplacements(_, _)
ApplyReplacements(s, k) ==
    IF k > Len(replacements) THEN s
    ELSE ApplyReplacements(ReplaceChar(s, replacements[k][1], replacements[k][2]), k + 1)

normalize_formal_expression(self, raw) ==
    ApplyPatterns(self.variable_name_patterns, ApplyReplacements(raw, 1), 1)

-----------------------------------------------------------------------------
(* Bounds and input sets *)

MaxFragments == 4

MaxCaps == 1

MaxRun == 1

\* all concatenations of at most n members of frags
RECURSIVE Concats(_, _)
Concats(frags, n) ==
    IF n = 0 THEN {<<>>}
    ELSE LET shorter == Concats(frags, n - 1)
         IN  shorter \cup {f \o s : f \in frags, s \in shorter}

\* runs of whitespace of length 1..n
RECURSIVE WhitespaceRuns(_)
WhitespaceRuns(n) ==
    IF n = 0 THEN {}
    ELSE {<<c>> : c \in Whitespace}
         \cup {<<c>> \o r : c \in Whitespace, r \in WhitespaceRuns(n - 1)}

\* what may join the two words of a phrase in a variable name
Joiners == {<<>>, <<"-">>, <<"_">>} \cup WhitespaceRuns(MaxRun)

\* letter-casings: the letters at the positions of caps are upper-case
\* the subsets of 1..n of at most k members
RECURSIVE SmallSubsets(_, _)
SmallSubsets(n, k) ==
    IF k = 0 THEN {{}}
    ELSE LET smaller == SmallSubsets(n, k - 1)
         IN  smaller \cup {c \cup {i} : c \in smaller, i \in 1..n}

CapsSets(n) == SmallSubsets(n, MaxCaps) \cup {1..n}

Cased(s, caps) == [i \in 1..Len(s) |-> IF i \in caps THEN UpperChar(s[i]) ELSE s[i]]

\* the two words of rule p, cased, with joiner j between them
Spelling(p, caps, j) ==
    LET letters == Cased(p.w1 \o p.w2, caps)
    IN  SubSeq(letters, 1, Len(p.w1)) \o j \o SubSeq(letters, Len(p.w1) + 1, Len(letters))

\* "System Status", "User ID": both words capitalised, the second word an acronym
PhraseCaps(p) ==
    CapsSets(Len(p.w1) + Len(p.w2))
    \cup {{1, Len(p.w1) + 1}, {1} \cup ((Len(p.w1) + 1)..(Len(p.w1) + Len(p.w2)))}

Spellings(p, joiners) ==
    {Spelling(p, caps, j) : caps \in PhraseCaps(p), j \in joiners}

PhraseSpellings(patterns) ==
    UNION {Spellings(patterns[r], Joiners) : r \in 1..Len(patterns)}

NameFragments == {<<"e", "r", "r", "o", "r">>, <<"R", "a", "t", "e">>, <<"r", "r", "o", "r">>, <<" ">>, <<"_">>, <<"-">>, <<"7">>}

\* raw names: free text, and the spellings of the phrases of patterns
NameInputs(patterns) == Concats(NameFragments, MaxFragments) \cup PhraseSpellings(patterns)

-----------------------------------------------------------------------------
(* NameNormalizer applied to one raw name, and again to its own output *)

Idle == <<>>

InitName ==
    /\ post_processor = MockPostProcessor
    /\ name \in NameInputs(VariableNamePatterns)
    /\ unit = Idle /\ expression = Idle
    /\ result = Idle /\ result2 = Idle
    /\ invs = Idle /\ drafts = Idle /\ locals = Idle
    /\ pc = "start"

NormalizeName ==
    /\ pc = "start"
    /\ result' = normalize_variable_name(post_processor, name)
    /\ pc' = "once"
    /\ UNCHANGED <<post_processor, name, unit, expression, result2, invs, drafts, locals>>

NormalizeNameAgain ==
    /\ pc = "once"
    /\ result2' = normalize_variable_name(post_processor, result)
    /\ pc' = "twice"
    /\ UNCHANGED <<post_processor, name, unit, expression, result, invs, drafts, locals>>

NextName == NormalizeName \/ NormalizeNameAgain

SpecName == InitName /\ [][NextName]_vars

\* C1: normalize(normalize(s)) = normalize(s) for every raw name s
C1_NameIdempotent == pc = "twice" => result2 = result

\* s spells the phrase of rule p: its two words in any letter-casing, joined by
\* nothing, a run of whitespace, one hyphen or one underscore
IsPhraseSpelling(p, s) ==
    /\ Len(s) >= Len(p.w1) + Len(p.w2)
    /\ Lower(SubSeq(s, 1, Len(p.w1))) = p.w1
    /\ Lower(SubSeq(s, Len(s) - Len(p.w2) + 1, Len(s))) = p.w2
    /\ LET joiner == SubSeq(s, Len(p.w1) + 1, Len(s) - Len(p.w2))
       IN  \/ Range(joiner) \subseteq Whitespace
           \/ joiner \in {<<"-">>, <<"_">>}

\* C8: every spelling of a rule phrase (any casing; joined by nothing, whitespace,
\* a hyphen or an underscore) normalizes to the rule's canonical token
C8_PhraseInvariance ==
    pc # "start" =>
        \A r \in 1..Len(VariableNamePatterns) :
            IsPhraseSpelling(VariableNamePatterns[r], name)
                => result = VariableNamePatterns[r].replacement

C8_Witness ==
    /\ pc = "once"
    /\ name = <<"U", "S", "E", "R", "-", "I", "D">>
    /\ IsPhraseSpelling(VariableNamePatterns[1], name)
    /\ result = <<"u", "s", "e", "r", "_", "i", "d">>

\* the shape of a canonical name: non-empty, over [a-z0-9_], no underscore at
\* either end, no two underscores in a row
IsCanonicalShape(s) ==
    /\ Len(s) > 0
    /\ \A i \in 1..Len(s) : IsAlnum(s[i]) \/ s[i] = "_"
    /\ s[1] # "_" /\ s[Len(s)] # "_"
    /\ \A i \in 1..(Len(s) - 1) : ~(s[i] = "_" /\ s[i + 1] = "_")

\* C10: the output always has the canonical shape, and an input holding no
\* character that lower-cases into [a-z0-9] yields the sentinel
C10_ShapeAndFallback ==
    pc # "start" =>
        /\ IsCanonicalShape(result)
        /\ (\A i \in 1..Len(name) : ~IsAlnum(LowerChar(name[i])))
               => result = unnamed_variable

C10_Witness ==
    /\ pc = "once"
    /\ name = <<" ", "_", "-">>
    /\ result = unnamed_variable

-----------------------------------------------------------------------------
(* UnitStandardizer applied to one raw unit, and again to its own output *)

Pads == {<<>>} \cup WhitespaceRuns(MaxRun)

\* every key of the synonym table in several letter-casings, padded with
\* whitespace, and units the table does not list
UnitSpellings(key) ==
    {l \o Cased(Lower(key), c) \o r : c \in CapsSets(Len(key)), l \in Pads, r \in Pads}

UnitInputs(table) ==
    UNION {UnitSpellings(table[k][1]) : k \in 1..Len(table)}
    \cup {l \o u \o r : u \in {<<>>, <<"r", "a", "t", "i", "o">>, <<"W", "i", "d", "g", "e", "t", "s">>, <<"k", " ", "b">>}, l \in Pads, r \in Pads}

InitUnit ==
    /\ post_processor = MockPostProcessor
    /\ unit \in UnitInputs(UnitStandardization)
    /\ name = Idle /\ expression = Idle
    /\ result = Idle /\ result2 = Idle
    /\ invs = Idle /\ drafts = Idle /\ locals = Idle
    /\ pc = "start"

StandardizeUnit ==
    /\ pc = "start"
    /\ result' = standardize_unit(post_processor, unit)
    /\ pc' = "once"
    /\ UNCHANGED <<post_processor, name, unit, expression, result2, invs, drafts, locals>>

StandardizeUnitAgain ==
    /\ pc = "once"
    /\ result2' = standardize_unit(post_processor, result)
    /\ pc' = "twice"
    /\ UNCHANGED <<post_processor, name, unit, expression, result, invs, drafts, locals>>

NextUnit == StandardizeUnit \/ StandardizeUnitAgain

SpecUnit == InitUnit /\ [][NextUnit]_vars

\* s is the synonym k in some letter-casing, with whitespace around it
IsUnitSpelling(k, s) ==
    \E i \in 1..(Len(s) + 1) : \E j \in (i - 1)..Len(s) :
        /\ \A n \in 1..(i - 1) : s[n] \in Whitespace
        /\ \A n \in (j + 1)..Len(s) : s[n] \in Whitespace
        /\ Lower(SubSeq(s, i, j)) = Lower(k)

\* C4: every synonym of the table, in any casing and with any surrounding
\* whitespace, is standardized to the label the table lists for it
C4_SynonymsMapToCanonical ==
    pc # "start" =>
        \A k \in 1..Len(UnitStandardization) :
            IsUnitSpelling(UnitStandardization[k][1], unit)
                => result = UnitStandardization[k][2]

-----------------------------------------------------------------------------
(* ExpressionNormalizer applied to one raw expression, and again to its output *)

\* " >= 0" written with the symbol U+2265, and with the ASCII operator
GeZeroSymbol == <<" ", "U+2265", " ", "0">>

GeZeroAscii == <<" ", ">", "=", " ", "0">>

ExpressionFragments == {<<"e", "r", "r", "o", "r">>, <<"R", "a", "t", "e">>, <<"r", "r", "o", "r">>, <<" ">>, <<"U+2264">>, <<"U+2209">>}

\* raw expressions: free text with symbols, and each phrase of patterns, spelled
\* or as its canonical token, compared with zero
ExpressionInputs(patterns) ==
    Concats(ExpressionFragments, MaxFragments)
    \cup {s \o GeZeroSymbol : s \in PhraseSpellings(patterns)}
    \cup {patterns[r].replacement \o GeZeroSymbol : r \in 1..Len(patterns)}

InitExpression ==
    /\ post_processor = MockPostProcessor
    /\ expression \in ExpressionInputs(VariableNamePatterns)
    /\ name = Idle /\ unit = Idle
    /\ result = Idle /\ result2 = Idle
    /\ invs = Idle /\ drafts = Idle /\ locals = Idle
    /\ pc = "start"

NormalizeExpression ==
    /\ pc = "start"
    /\ result' = normalize_formal_expression(post_processor, expression)
    /\ pc' = "once"
    /\ UNCHANGED <<post_processor, name, unit, expression, result2, invs, drafts, locals>>

NormalizeExpressionAgain ==
    /\ pc = "once"
    /\ result2' = normalize_formal_expression(post_processor, result)
    /\ pc' = "twice"
    /\ UNCHANGED <<post_processor, name, unit, expression, result, invs, drafts, locals>>

NextExpression == NormalizeExpression \/ NormalizeExpressionAgain

SpecExpression == InitExpression /\ [][NextExpression]_vars

\* C2: normalize_expr(normalize_expr(e)) = normalize_expr(e) for every expression e
C2_ExpressionIdempotent == pc = "twice" => result2 = result

\* the expression is the identifier s followed by " U+2265 0"
Embeds(e, s) == e = s \o GeZeroSymbol

Embedded(e) == SubSeq(e, 1, Len(e) - Len(GeZeroSymbol))

\* C9 as claimed: every spelling of a rule phrase that NameNormalizer maps to the
\* rule's token is rewritten to that token inside an expression
C9_EmbeddedNamesCanonical ==
    pc # "start" =>
        \A r \in 1..Len(VariableNamePatterns) :
            LET p == VariableNamePatterns[r]
                s == Embedded(expression)
            IN  (/\ Len(expression) >= Len(GeZeroSymbol)
                 /\ Embeds(expression, s)
                 /\ IsPhraseSpelling(p, s)
                 /\ normalize_variable_name(post_processor, s) = p.replacement)
                    => result = p.replacement \o GeZeroAscii

\* s spells the phrase of rule p with nothing or a run of whitespace between its words
IsSpacedSpelling(p, s) ==
    /\ IsPhraseSpelling(p, s)
    /\ Range(SubSeq(s, Len(p.w1) + 1, Len(s) - Len(p.w2))) \subseteq Whitespace

\* C9 amended: a spelling joined by nothing or by whitespace, in any casing, and
\* the canonical token itself, are rewritten to the token inside an expression
C9_SpacedNamesCanonical ==
    pc # "start" =>
        \A r \in 1..Len(VariableNamePatterns) :
            LET p == VariableNamePatterns[r]
                s == Embedded(expression)
            IN  (/\ Len(expression) >= Len(GeZeroSymbol)
                 /\ Embeds(expression, s)
                 /\ (IsSpacedSpelling(p, s) \/ s = p.replacement))
                    => result = p.replacement \o GeZeroAscii

C9_Witness ==
    /\ pc = "once"
    /\ expression = <<"U", "s", "e", "r", " ", "I", "D">> \o GeZeroSymbol
    /\ IsSpacedSpelling(VariableNamePatterns[1], Embedded(expression))
    /\ result = <<"u", "s", "e", "r", "_", "i", "d", " ", ">", "=", " ", "0">>

-----------------------------------------------------------------------------
(* Draft invariant records, as extract_invariants_from_text builds them,
   holding raw (not yet normalized) names, units and expressions *)

MaxVars == 2

MaxUnits == 2

NumRecords == 2

VariablePool ==
    { [name |-> <<"U", "s", "e", "r", " ", "I", "D">>, type |-> "integer", unit |-> <<"C", "o", "u", "n", "t">>],
      [name |-> <<>>,       type |-> "string",  unit |-> <<" ", "K", "B">>] }

UnitKeyPool == {<<"U", "s", "e", "r", " ", "I", "D">>, <<"u", "s", "e", "r", "-", "i", "d">>, <<"e", "r", "r", "o", "r", "r", "a", "t", "e", "r", "r", "o", "r", "r", "a", "t", "e">>}

UnitValuePool == {<<"M", "S">>, <<"c", "o", "u", "n", "t">>}

HeadUserId ==
    [description |-> <<"U", "s", "e", "r", " ", "I", "D", " ", "m", "u", "s", "t", " ", "b", "e", " ", "p", "o", "s", "i", "t", "i", "v", "e">>, formal_expression |-> <<"U", "s", "e", "r", " ", "I", "D", " ", ">", " ", "0">>,
     confidence_score |-> "0.9", priority |-> "HIGH"]

HeadErrorRate ==
    [description |-> <<"E", "r", "r", "o", "r", " ", "r", "a", "t", "e", " ", "b", "e", "l", "o", "w", " ", "1", "%">>,
     formal_expression |-> <<"e", "r", "r", "o", "r", " ", " ", "r", "a", "t", "e", " ">> \o <<"U+2264">> \o <<" ", "1">>,
     confidence_score |-> "0.9", priority |-> "CRITICAL"]

HeadOverlap ==
    [description |-> <<"E", "R", " ", "<", " ", "1", "%">>, formal_expression |-> <<"e", "r", "r", "o", "r", "r", "a", "t", "e", "r", "r", "o", "r", "r", "a", "t", "e", "<", "1">>,
     confidence_score |-> "0.5", priority |-> "HIGH"]

HeadPool == {HeadUserId, HeadErrorRate}

\* sequences of at most n members of pool
RECURSIVE Lists(_, _)
Lists(pool, n) ==
    IF n = 0 THEN {<<>>}
    ELSE LET shorter == Lists(pool, n - 1)
         IN  shorter \cup {Append(s, x) : s \in shorter, x \in pool}

\* dicts of at most n items: distinct keys, in every insertion order
RECURSIVE Dicts(_, _, _)
Dicts(keys, values, n) ==
    IF n = 0 THEN {<<>>}
    ELSE LET shorter == Dicts(keys, values, n - 1)
         IN  shorter \cup {Append(d, <<k, v>>) :
                               d \in {x \in shorter : Len(x) = n - 1}, k \in keys, v \in values}

IsDict(d) == \A i, j \in 1..Len(d) : d[i][1] = d[j][1] => i = j

Draft(head, variables, units) ==
    [description       |-> head.description,
     formal_expression |-> head.formal_expression,
     natural_language  |-> head.description,
     variables         |-> variables,
     units             |-> units,
     confidence_score  |-> head.confidence_score,
     priority          |-> head.priority]

ProcessDrafts(heads) ==
    {Draft(h, v, u) : h \in heads,
                      v \in Lists(VariablePool, MaxVars),
                      u \in {d \in Dicts(UnitKeyPool, UnitValuePool, MaxUnits) : IsDict(d)}}

-----------------------------------------------------------------------------
(* The process loop of demonstrate_language_variations, one step per assignment.
   pc[r] is the position of the call that processes record r; locals[r] holds its
   loop indices i (variables) and j (units items), its local normalized_units
   and the number of the pass over the record. *)

EnterUnits(inv) == IF Len(inv.units) > 0 THEN "units_item" ELSE "units_assign"

EnterVariables(inv) == IF Len(inv.variables) > 0 THEN "var_name" ELSE EnterUnits(inv)

FreshLocals(pass) == [i |-> 1, j |-> 1, normalized_units |-> <<>>, pass |-> pass]

InitRecords(records) ==
    /\ post_processor = MockPostProcessor
    /\ name = Idle /\ unit = Idle /\ expression = Idle /\ result2 = Idle
    /\ drafts = records
    /\ invs = records
    /\ result = [r \in DOMAIN records |-> Idle]
    /\ locals = [r \in DOMAIN records |-> FreshLocals(1)]
    /\ pc = [r \in DOMAIN records |-> EnterVariables(records[r])]

\* var["name"] = normalize_variable_name(var["name"])
VarName(r) ==
    /\ pc[r] = "var_name"
    /\ invs' = [invs EXCEPT ![r].variables[locals[r].i].name =
                   normalize_variable_name(post_processor, @)]
    /\ pc' = [pc EXCEPT ![r] = "var_unit"]
    /\ UNCHANGED <<post_processor, name, unit, expression, result, result2, drafts, locals>>

\* a faulty variant of VarUnit: the standardized unit is stored under "type"
VarUnitWrongField(r) ==
    /\ pc[r] = "var_unit"
    /\ invs' = [invs EXCEPT ![r].variables[locals[r].i].type =
                   standardize_unit(post_processor, invs[r].variables[locals[r].i].unit)]
    /\ IF locals[r].i < Len(invs[r].variables)
       THEN /\ locals' = [locals EXCEPT ![r].i = @ + 1]
            /\ pc' = [pc EXCEPT ![r] = "var_name"]
       ELSE /\ locals' = locals
            /\ pc' = [pc EXCEPT ![r] = EnterUnits(invs[r])]
    /\ UNCHANGED <<post_processor, name, unit, expression, result, result2, drafts>>

\* a faulty variant of VarUnit: standardize_unit caches each answer in the shared table
VarUnitMemoizing(r) ==
    /\ pc[r] = "var_unit"
    /\ LET raw        == invs[r].variables[locals[r].i].unit
           normalized == StripChars(Lower(raw), Whitespace)
           answer     == standardize_unit(post_processor, raw)
       IN  /\ invs' = [invs EXCEPT ![r].variables[locals[r].i].unit = answer]
           /\ post_processor' = [post_processor EXCEPT
                                    !.unit_standardization = DictSet(@, normalized, answer)]
    /\ IF locals[r].i < Len(invs[r].variables)
       THEN /\ locals' = [locals EXCEPT ![r].i = @ + 1]
            /\ pc' = [pc EXCEPT ![r] = "var_name"]
       ELSE /\ locals' = locals
            /\ pc' = [pc EXCEPT ![r] = EnterUnits(invs[r])]
    /\ UNCHANGED <<name, unit, expression, result, result2, drafts>>

\* var["unit"] = standardize_unit(var["unit"]); then the next variable, or
\* normalized_units = {} and the units loop
VarUnit(r) ==
    /\ pc[r] = "var_unit"
    /\ invs' = [invs EXCEPT ![r].variables[locals[r].i].unit =
                   standardize_unit(post_processor, @)]
    /\ IF locals[r].i < Len(invs[r].variables)
       THEN /\ locals' = [locals EXCEPT ![r].i = @ + 1]
            /\ pc' = [pc EXCEPT ![r] = "var_name"]
       ELSE /\ locals' = locals
            /\ pc' = [pc EXCEPT ![r] = EnterUnits(invs[r])]
    /\ UNCHANGED <<post_processor, name, unit, expression, result, result2, drafts>>

\* a faulty variant of UnitsItem: a key already in normalized_units keeps its first unit
UnitsItemKeepFirst(r) ==
    /\ pc[r] = "units_item"
    /\ LET item == invs[r].units[locals[r].j]
           key  == normalize_variable_name(post_processor, item[1])
       IN  locals' = [locals EXCEPT
                         ![r].normalized_units =
                             IF key \in DictKeys(@) THEN @
                             ELSE Append(@, <<key, standardize_unit(post_processor, item[2])>>),
                         ![r].j = @ + 1]
    /\ pc' = [pc EXCEPT ![r] =
                 IF locals[r].j < Len(invs[r].units) THEN "units_item" ELSE "units_assign"]
    /\ UNCHANGED <<post_processor, name, unit, expression, result, result2, drafts, invs>>

\* normalized_units[normalize_variable_name(var_name)] = standardize_unit(unit)
UnitsItem(r) ==
    /\ pc[r] = "units_item"
    /\ LET item == invs[r].units[locals[r].j]
       IN  locals' = [locals EXCEPT
                         ![r].normalized_units =
                             DictSet(@, normalize_variable_name(post_processor, item[1]),
                                        standardize_unit(post_processor, item[2])),
                         ![r].j = @ + 1]
    /\ pc' = [pc EXCEPT ![r] =
                 IF locals[r].j < Len(invs[r].units) THEN "units_item" ELSE "units_assign"]
    /\ UNCHANGED <<post_processor, name, unit, expression, result, result2, drafts, invs>>

\* inv["units"] = normalized_units
UnitsAssign(r) ==
    /\ pc[r] = "units_assign"
    /\ invs' = [invs EXCEPT ![r].units = locals[r].normalized_units]
    /\ pc' = [pc EXCEPT ![r] = "expression"]
    /\ UNCHANGED <<post_processor, name, unit, expression, result, result2, drafts, locals>>

\* inv["formal_expression"] = normalize_formal_expression(inv["formal_expression"])
FormalExpression(r) ==
    /\ pc[r] = "expression"
    /\ invs' = [invs EXCEPT ![r].formal_expression =
                   normalize_formal_expression(post_processor, @)]
    /\ pc' = [pc EXCEPT ![r] = "done"]
    /\ UNCHANGED <<post_processor, name, unit, expression, result, result2, drafts, locals>>

\* the processed record is handed to the loop a second time
ProcessAgain(r) ==
    /\ pc[r] = "done"
    /\ locals[r].pass = 1
    /\ result' = [result EXCEPT ![r] = invs[r]]
    /\ locals' = [locals EXCEPT ![r] = FreshLocals(2)]
    /\ pc' = [pc EXCEPT ![r] = EnterVariables(invs[r])]
    /\ UNCHANGED <<post_processor, name, unit, expression, result2, drafts, invs>>

InitProcess == \E d \in ProcessDrafts(HeadPool) : InitRecords(<<d>>)

NextProcess ==
    \/ \E r \in DOMAIN invs : VarName(r)
    \/ \E r \in DOMAIN invs : VarUnit(r)
    \/ \E r \in DOMAIN invs : UnitsItem(r)
    \/ \E r \in DOMAIN invs : UnitsAssign(r)
    \/ \E r \in DOMAIN invs : FormalExpression(r)
    \/ \E r \in DOMAIN invs : ProcessAgain(r)

SpecProcess == InitProcess /\ [][NextProcess]_vars

\* the fields process may change
Mutable(inv) ==
    [names   |-> [i \in 1..Len(inv.variables) |-> inv.variables[i].name],
     units_  |-> [i \in 1..Len(inv.variables) |-> inv.variables[i].unit],
     units   |-> inv.units,
     formal_expression |-> inv.formal_expression]

\* C3: processing a processed record again changes none of variables[*].name,
\* variables[*].unit, units and formal_expression
C3_ProcessIdempotent ==
    \A r \in DOMAIN invs :
        (pc[r] = "done" /\ locals[r].pass = 2) => Mutable(invs[r]) = Mutable(result[r])

\* the units mapping new is the re-keying of old: its keys are the normalized
\* keys of old, each holding the standardized unit of the last item of old
\* whose key normalizes to it
IsRekeyed(old, new) ==
    /\ IsDict(new)
    /\ DictKeys(new) = {normalize_variable_name(MockPostProcessor, k) : k \in DictKeys(old)}
    /\ \A n \in 1..Len(new) :
          LET from == {i \in 1..Len(old) :
                          normalize_variable_name(MockPostProcessor, old[i][1]) = new[n][1]}
              last == CHOOSE i \in from : \A j \in from : j <= i
          IN  new[n][2] = standardize_unit(MockPostProcessor, old[last][2])

\* C5: after the units rebuild of process, units is the re-keying of the original
\* mapping, the last of several colliding keys winning
C5_UnitsRekeyedLastWins ==
    \A r \in DOMAIN invs :
        (locals[r].pass = 1 /\ pc[r] \in {"expression", "done"})
            => IsRekeyed(drafts[r].units, invs[r].units)

C5_Witness ==
    /\ pc[1] = "done" /\ locals[1].pass = 1
    /\ drafts[1].units = << <<<<"U", "s", "e", "r", " ", "I", "D">>, <<"M", "S">>>>, <<<<"u", "s", "e", "r", "-", "i", "d">>, <<"c", "o", "u", "n", "t">>>> >>
    /\ invs[1].units = << <<<<"u", "s", "e", "r", "_", "i", "d">>, <<"i", "t", "e", "m", "s">>>> >>

\* C6: process leaves description, natural_language, confidence_score, priority
\* and every variable's type alone and keeps the length and order of variables:
\* the i-th variable of the processed record is the normalized i-th draft variable
C6_Frame ==
    \A r \in DOMAIN invs :
        /\ invs[r].description = drafts[r].description
        /\ invs[r].natural_language = drafts[r].natural_language
        /\ invs[r].confidence_score = drafts[r].confidence_score
        /\ invs[r].priority = drafts[r].priority
        /\ Len(invs[r].variables) = Len(drafts[r].variables)
        /\ \A i \in 1..Len(drafts[r].variables) :
              invs[r].variables[i].type = drafts[r].variables[i].type
        /\ (pc[r] = "done" /\ locals[r].pass = 1) =>
              \A i \in 1..Len(drafts[r].variables) :
                  /\ invs[r].variables[i].name =
                         normalize_variable_name(MockPostProcessor, drafts[r].variables[i].name)
                  /\ invs[r].variables[i].unit =
                         standardize_unit(MockPostProcessor, drafts[r].variables[i].unit)

C6_Witness ==
    /\ pc[1] = "done" /\ locals[1].pass = 1
    /\ Len(drafts[1].variables) = 2
    /\ drafts[1].variables[1].name = <<"U", "s", "e", "r", " ", "I", "D">> /\ invs[1].variables[1].name = <<"u", "s", "e", "r", "_", "i", "d">>
    /\ drafts[1].variables[2].name = <<>> /\ invs[1].variables[2].name = unnamed_variable
    /\ invs[1].formal_expression # drafts[1].formal_expression

-----------------------------------------------------------------------------
(* Several calls of the loop body, each on a record of its own, interleaved *)

\* the loop body on one record, run from its first line to its last
RECURSIVE RebuildUnits(_, _, _, _)
RebuildUnits(self, units, j, normalized_units) ==
    IF j > Len(units) THEN normalized_units
    ELSE RebuildUnits(self, units, j + 1,
                      DictSet(normalized_units,
                              normalize_variable_name(self, units[j][1]),
                              standardize_unit(self, units[j][2])))

process(self, inv) ==
    [inv EXCEPT
        !.variables = [i \in 1..Len(@) |->
                          [@[i] EXCEPT !.name = normalize_variable_name(self, @),
                                       !.unit = standardize_unit(self, @)]],
        !.units = RebuildUnits(self, @, 1, <<>>),
        !.formal_expression = normalize_formal_expression(self, @)]

ConcurrentDrafts ==
    { Draft(HeadUserId,
            << [name |-> <<"U", "s", "e", "r", " ", "I", "D">>, type |-> "integer", unit |-> <<"C", "o", "u", "n", "t">>] >>,
            << <<<<"U", "s", "e", "r", " ", "I", "D">>, <<"M", "S">>>>, <<<<"u", "s", "e", "r", "-", "i", "d">>, <<"c", "o", "u", "n", "t">>>> >>),
      Draft(HeadErrorRate,
            << [name |-> <<>>, type |-> "string", unit |-> <<" ", "K", "B">>],
               [name |-> <<"e", "r", "r", "o", "r", "r", "a", "t", "e", "r", "r", "o", "r", "r", "a", "t", "e">>, type |-> "float", unit |-> <<"%">>] >>,
            <<>>),
      Draft(HeadOverlap,
            <<>>,
            << <<<<"e", "r", "r", "o", "r", "r", "a", "t", "e", "r", "r", "o", "r", "r", "a", "t", "e">>, <<"c", "o", "u", "n", "t">>>> >>) }

InitConcurrent == \E records \in [1..NumRecords -> ConcurrentDrafts] : InitRecords(records)

NextConcurrent ==
    \/ \E r \in DOMAIN invs : VarName(r)
    \/ \E r \in DOMAIN invs : VarUnit(r)
    \/ \E r \in DOMAIN invs : UnitsItem(r)
    \/ \E r \in DOMAIN invs : UnitsAssign(r)
    \/ \E r \in DOMAIN invs : FormalExpression(r)

SpecConcurrent == InitConcurrent /\ [][NextConcurrent]_vars

\* C7: however the steps of the calls interleave, the rule tables keep their
\* initial values and, once every call is done, each record is what the loop
\* body run on it alone produces
C7_InterleavingsAgree ==
    /\ post_processor = MockPostProcessor
    /\ (\A r \in DOMAIN invs : pc[r] = "done")
           => \A r \in DOMAIN invs : invs[r] = process(MockPostProcessor, drafts[r])

C7_Witness ==
    /\ \A r \in DOMAIN invs : pc[r] = "done"
    /\ drafts[1] # drafts[2]
    /\ \A r \in DOMAIN invs : invs[r] # drafts[r]
    /\ post_processor = MockPostProcessor

====
